---- MODULE Spec2Model ----
(***************************************************************************)
(* Model of the elevator dispatch controller (src/src/controller.rs).      *)
(*                                                                         *)
(* State: the controller's per-elevator table (should_visit_by_elevator),  *)
(* the set of unassigned hall calls (call_button_pressed_by_floor), and    *)
(* history of the last loop iteration: the event received, the commands    *)
(* sent while processing it, and the matches made by process_waiting_list. *)
(* One action per BuildingEvent arm of the controller loop; every action   *)
(* runs the arm and then process_waiting_list, as the loop body does.      *)
(*                                                                         *)
(* ElevatorButtonsInfo.passenger_count is written (controller.rs:195) but  *)
(* never read, so it is not part of the modelled state.                    *)
(* The HashSet of hall calls is iterated in an unspecified order           *)
(* (controller.rs:99): the model chooses the order nondeterministically.   *)
(***************************************************************************)
EXTENDS Integers, Sequences, FiniteSets, TLC

\* ---------------------------------------------------------------- bounds
NumElevators == 2
NumFloors == 3
\* largest number of hall calls held at once in call_button_pressed_by_floor
MaxPending == 2
\* number of button events the passengers produce in the fair specification
MaxButtons == 2

\* std::i32::MAX, the initial lowest_distance
I32Max == 2147483647

ElevatorIds == 0 .. (NumElevators - 1)
FloorIds == 0 .. (NumFloors - 1)
Direction == {"Up", "Down"}

\* Option<T>: None is the empty sequence, Some(x) a one-element sequence
None == << >>
Some(x) == << x >>
Unwrap(o) == o[1]

SetMin(S) == CHOOSE x \in S : \A y \in S : x <= y
SetMax(S) == CHOOSE x \in S : \A y \in S : x >= y

\* ---------------------------------------------------- ElevatorButtonsInfo
DefaultElevator == [position |-> 0, should_visit |-> {}, direction |-> None]

is_idle(e) == e.should_visit = {}

\* A Range<FloorId> start..end is the set of floors f with start <= f < end
Range(start, end) == {f \in FloorIds : start <= f /\ f < end}

current_trip(e) ==
    IF e.direction = None \/ e.should_visit = {} THEN None
    ELSE IF Unwrap(e.direction) = "Up"
         THEN Some(Range(e.position, SetMax(e.should_visit)))
         ELSE Some(Range(e.position, SetMin(e.should_visit)))

next_step(e) ==
    IF e.direction = None THEN None
    ELSE IF Unwrap(e.direction) = "Up"
         THEN LET ahead == {s \in e.should_visit : s >= e.position}
              IN IF ahead = {} THEN None ELSE Some(SetMin(ahead))
         ELSE LET ahead == {s \in e.should_visit : 0 <= s /\ s <= e.position}
              IN IF ahead = {} THEN None ELSE Some(SetMax(ahead))

Abs(x) == IF x < 0 THEN -x ELSE x

distance_to(e, floor) == Abs(e.position - floor)

swap_direction(e) ==
    IF e.direction # None
    THEN [e EXCEPT !.direction =
              IF Unwrap(e.direction) = "Up" THEN Some("Down") ELSE Some("Up")]
    ELSE [e EXCEPT !.direction =
              IF e.position < SetMin(e.should_visit) THEN Some("Up")
              ELSE Some("Down")]

\* ------------------------------------------------ find_best_elevator_match
\* the test of the loop body, controller.rs:79-81
is_candidate(e, floor, direction) ==
    \/ is_idle(e)
    \/ /\ floor \in Unwrap(current_trip(e))
       /\ Unwrap(e.direction) = direction

\* the loop with distance <= lowest_distance in place of controller.rs:84
RECURSIVE best_match_loop_last_wins(_, _, _, _, _)
best_match_loop_last_wins(id, lowest_distance, result, floor_dir, elevators) ==
    IF id >= NumElevators THEN result
    ELSE LET elevator == elevators[id]
             distance == distance_to(elevator, floor_dir[1])
         IN IF is_candidate(elevator, floor_dir[1], floor_dir[2])
               /\ distance <= lowest_distance
            THEN best_match_loop_last_wins(id + 1, distance, Some(id),
                                           floor_dir, elevators)
            ELSE best_match_loop_last_wins(id + 1, lowest_distance, result,
                                           floor_dir, elevators)

RECURSIVE best_match_loop(_, _, _, _, _)
best_match_loop(id, lowest_distance, result, floor_dir, elevators) ==
    IF id >= NumElevators THEN result
    ELSE LET elevator == elevators[id]
             distance == distance_to(elevator, floor_dir[1])
         IN IF is_candidate(elevator, floor_dir[1], floor_dir[2])
               /\ distance < lowest_distance
            THEN best_match_loop(id + 1, distance, Some(id), floor_dir, elevators)
            ELSE best_match_loop(id + 1, lowest_distance, result, floor_dir, elevators)

\* the loop started at the second elevator
find_best_elevator_match_skips_first(floor, direction, elevators) ==
    best_match_loop(1, I32Max, None, << floor, direction >>, elevators)

find_best_elevator_match(floor, direction, elevators) ==
    best_match_loop(0, I32Max, None, << floor, direction >>, elevators)

\* ---------------------------------------------------- process_waiting_list
GoToFloor(id, floor) == << id, floor >>

\* process_call without the test of controller.rs:107-109
process_call_no_skip(acc, call) ==
    LET floor == call[1]
        direction == call[2]
        found == find_best_elevator_match(floor, direction, acc.elevators)
    IN IF found = None THEN acc
       ELSE LET elevator_id == Unwrap(found)
                elevator_info == acc.elevators[elevator_id]
                inserted == [elevator_info EXCEPT !.should_visit = @ \cup {floor}]
                info == IF next_step(inserted) = None
                        THEN swap_direction(inserted)
                        ELSE inserted
                cmd == GoToFloor(elevator_id, Unwrap(next_step(info)))
            IN [elevators |-> [acc.elevators EXCEPT ![elevator_id] = info],
                waiters_to_remove |-> acc.waiters_to_remove \cup {call},
                cmds |-> Append(acc.cmds, cmd),
                matches |-> Append(acc.matches,
                                   [call |-> call,
                                    elevator_id |-> elevator_id,
                                    before |-> elevator_info,
                                    after |-> info,
                                    cmd |-> Some(cmd)])]

\* process_call sending the elevator's position in place of next_step
process_call_stale_target(acc, call) ==
    LET floor == call[1]
        direction == call[2]
        found == find_best_elevator_match(floor, direction, acc.elevators)
    IN IF found = None THEN acc
       ELSE LET elevator_id == Unwrap(found)
                elevator_info == acc.elevators[elevator_id]
                removed == acc.waiters_to_remove \cup {call}
            IN IF floor = elevator_info.position /\ ~is_idle(elevator_info)
               THEN [acc EXCEPT
                        !.waiters_to_remove = removed,
                        !.matches = Append(@, [call |-> call,
                                               elevator_id |-> elevator_id,
                                               before |-> elevator_info,
                                               after |-> elevator_info,
                                               cmd |-> None])]
               ELSE LET inserted == [elevator_info EXCEPT
                                        !.should_visit = @ \cup {floor}]
                        info == IF next_step(inserted) = None
                                THEN swap_direction(inserted)
                                ELSE inserted
                        cmd == GoToFloor(elevator_id, elevator_info.position)
                    IN [elevators |-> [acc.elevators EXCEPT ![elevator_id] = info],
                        waiters_to_remove |-> removed,
                        cmds |-> Append(acc.cmds, cmd),
                        matches |-> Append(acc.matches,
                                           [call |-> call,
                                            elevator_id |-> elevator_id,
                                            before |-> elevator_info,
                                            after |-> info,
                                            cmd |-> Some(cmd)])]

\* process_call sending a command only to an elevator that was idle
process_call_quiet(acc, call) ==
    LET floor == call[1]
        direction == call[2]
        found == find_best_elevator_match(floor, direction, acc.elevators)
    IN IF found = None THEN acc
       ELSE LET elevator_id == Unwrap(found)
                elevator_info == acc.elevators[elevator_id]
                removed == acc.waiters_to_remove \cup {call}
            IN IF floor = elevator_info.position /\ ~is_idle(elevator_info)
               THEN [acc EXCEPT
                        !.waiters_to_remove = removed,
                        !.matches = Append(@, [call |-> call,
                                               elevator_id |-> elevator_id,
                                               before |-> elevator_info,
                                               after |-> elevator_info,
                                               cmd |-> None])]
               ELSE LET inserted == [elevator_info EXCEPT
                                        !.should_visit = @ \cup {floor}]
                        info == IF next_step(inserted) = None
                                THEN swap_direction(inserted)
                                ELSE inserted
                        cmd == GoToFloor(elevator_id, Unwrap(next_step(info)))
                        quiet == ~is_idle(elevator_info)
                    IN [elevators |-> [acc.elevators EXCEPT ![elevator_id] = info],
                        waiters_to_remove |-> removed,
                        cmds |-> IF quiet THEN acc.cmds ELSE Append(acc.cmds, cmd),
                        matches |-> Append(acc.matches,
                                           [call |-> call,
                                            elevator_id |-> elevator_id,
                                            before |-> elevator_info,
                                            after |-> info,
                                            cmd |-> IF quiet THEN None ELSE Some(cmd)])]

\* one iteration of the loop over the hall calls, controller.rs:99-122.
\* acc = [elevators, waiters_to_remove, cmds, matches]
process_call(acc, call) ==
    LET floor == call[1]
        direction == call[2]
        found == find_best_elevator_match(floor, direction, acc.elevators)
    IN IF found = None THEN acc
       ELSE LET elevator_id == Unwrap(found)
                elevator_info == acc.elevators[elevator_id]
                removed == acc.waiters_to_remove \cup {call}
            IN IF floor = elevator_info.position /\ ~is_idle(elevator_info)
               THEN [acc EXCEPT
                        !.waiters_to_remove = removed,
                        !.matches = Append(@, [call |-> call,
                                               elevator_id |-> elevator_id,
                                               before |-> elevator_info,
                                               after |-> elevator_info,
                                               cmd |-> None])]
               ELSE LET inserted == [elevator_info EXCEPT
                                        !.should_visit = @ \cup {floor}]
                        info == IF next_step(inserted) = None
                                THEN swap_direction(inserted)
                                ELSE inserted
                        cmd == GoToFloor(elevator_id, Unwrap(next_step(info)))
                    IN [elevators |-> [acc.elevators EXCEPT ![elevator_id] = info],
                        waiters_to_remove |-> removed,
                        cmds |-> Append(acc.cmds, cmd),
                        matches |-> Append(acc.matches,
                                           [call |-> call,
                                            elevator_id |-> elevator_id,
                                            before |-> elevator_info,
                                            after |-> info,
                                            cmd |-> Some(cmd)])]

RECURSIVE waiting_list_loop(_, _, _)
waiting_list_loop(acc, order, i) ==
    IF i > Len(order) THEN acc
    ELSE waiting_list_loop(process_call(acc, order[i]), order, i + 1)

\* the orders in which a HashSet holding the calls S can be iterated
IterationOrders(S) ==
    {o \in [1 .. Cardinality(S) -> S] :
        \A i, j \in 1 .. Cardinality(S) : i # j => o[i] # o[j]}

\* process_waiting_list without the removal loop of controller.rs:123-125
process_waiting_list_keeps_waiters(elevators, calls, order) ==
    LET acc == waiting_list_loop([elevators |-> elevators,
                                  waiters_to_remove |-> {},
                                  cmds |-> << >>,
                                  matches |-> << >>], order, 1)
    IN [elevators |-> acc.elevators,
        calls |-> calls,
        cmds |-> acc.cmds,
        matches |-> acc.matches]

\* process_waiting_list when the set is iterated in the given order
process_waiting_list(elevators, calls, order) ==
    LET acc == waiting_list_loop([elevators |-> elevators,
                                  waiters_to_remove |-> {},
                                  cmds |-> << >>,
                                  matches |-> << >>], order, 1)
    IN [elevators |-> acc.elevators,
        calls |-> calls \ acc.waiters_to_remove,
        cmds |-> acc.cmds,
        matches |-> acc.matches]

\* ------------------------------------------------------- controller arms
\* each arm maps the state to [elevators, calls, cmds]
call_button_pressed(elevators, calls, at, direction) ==
    [elevators |-> elevators,
     calls |-> calls \cup {<< at, direction >>},
     cmds |-> << >>]

\* floor_button_pressed sending nothing for a floor already in should_visit
floor_button_pressed_once(elevators, calls, elevator_id, dest) ==
    LET inserted == [elevators[elevator_id] EXCEPT
                        !.should_visit = @ \cup {dest}]
        elevator == IF next_step(inserted) = None
                    THEN swap_direction(inserted)
                    ELSE inserted
    IN [elevators |-> [elevators EXCEPT ![elevator_id] = elevator],
        calls |-> calls,
        cmds |-> IF dest \in elevators[elevator_id].should_visit THEN << >>
                 ELSE << GoToFloor(elevator_id, Unwrap(next_step(elevator))) >>]

floor_button_pressed(elevators, calls, elevator_id, destination) ==
    LET inserted == [elevators[elevator_id] EXCEPT
                        !.should_visit = @ \cup {destination}]
        elevator == IF next_step(inserted) = None
                    THEN swap_direction(inserted)
                    ELSE inserted
    IN [elevators |-> [elevators EXCEPT ![elevator_id] = elevator],
        calls |-> calls,
        cmds |-> << GoToFloor(elevator_id, Unwrap(next_step(elevator))) >>]

\* at_floor without the reset of direction of controller.rs:215
at_floor_keeps_direction(elevators, calls, elevator_id, floor) ==
    LET arrived == [elevators[elevator_id] EXCEPT
                       !.should_visit = @ \ {floor},
                       !.position = floor]
        elevator == IF next_step(arrived) = None /\ ~is_idle(arrived)
                    THEN swap_direction(arrived)
                    ELSE arrived
    IN [elevators |-> [elevators EXCEPT ![elevator_id] = elevator],
        calls |-> calls,
        cmds |-> IF ~is_idle(elevator)
                 THEN << GoToFloor(elevator_id, Unwrap(next_step(elevator))) >>
                 ELSE << >>]

\* at_floor without the removal of the floor of controller.rs:204
at_floor_keeps_stop(elevators, calls, elevator_id, floor) ==
    LET arrived == [elevators[elevator_id] EXCEPT !.position = floor]
        elevator == IF next_step(arrived) = None /\ ~is_idle(arrived)
                    THEN swap_direction(arrived)
                    ELSE arrived
    IN IF ~is_idle(elevator)
       THEN [elevators |-> [elevators EXCEPT ![elevator_id] = elevator],
             calls |-> calls,
             cmds |-> << GoToFloor(elevator_id, Unwrap(next_step(elevator))) >>]
       ELSE [elevators |-> [elevators EXCEPT
                               ![elevator_id] = [elevator EXCEPT !.direction = None]],
             calls |-> calls,
             cmds |-> << >>]

\* at_floor without the update of position of controller.rs:205
at_floor_keeps_position(elevators, calls, elevator_id, floor) ==
    LET arrived == [elevators[elevator_id] EXCEPT !.should_visit = @ \ {floor}]
        elevator == IF next_step(arrived) = None /\ ~is_idle(arrived)
                    THEN swap_direction(arrived)
                    ELSE arrived
    IN IF ~is_idle(elevator)
       THEN [elevators |-> [elevators EXCEPT ![elevator_id] = elevator],
             calls |-> calls,
             cmds |-> << GoToFloor(elevator_id, Unwrap(next_step(elevator))) >>]
       ELSE [elevators |-> [elevators EXCEPT
                               ![elevator_id] = [elevator EXCEPT !.direction = None]],
             calls |-> calls,
             cmds |-> << >>]

\* at_floor reversing whenever stops remain, without the next_step test of
\* controller.rs:207
at_floor_always_swaps(elevators, calls, elevator_id, floor) ==
    LET arrived == [elevators[elevator_id] EXCEPT
                       !.should_visit = @ \ {floor},
                       !.position = floor]
        elevator == IF ~is_idle(arrived) THEN swap_direction(arrived) ELSE arrived
    IN IF ~is_idle(elevator)
       THEN [elevators |-> [elevators EXCEPT ![elevator_id] = elevator],
             calls |-> calls,
             cmds |-> IF next_step(elevator) = None THEN << >>
                      ELSE << GoToFloor(elevator_id, Unwrap(next_step(elevator))) >>]
       ELSE [elevators |-> [elevators EXCEPT
                               ![elevator_id] = [elevator EXCEPT !.direction = None]],
             calls |-> calls,
             cmds |-> << >>]

\* at_floor without the reversal of controller.rs:207-209
at_floor_never_swaps(elevators, calls, elevator_id, floor) ==
    LET elevator == [elevators[elevator_id] EXCEPT
                        !.should_visit = @ \ {floor},
                        !.position = floor]
    IN IF ~is_idle(elevator)
       THEN [elevators |-> [elevators EXCEPT ![elevator_id] = elevator],
             calls |-> calls,
             cmds |-> IF next_step(elevator) = None THEN << >>
                      ELSE << GoToFloor(elevator_id, Unwrap(next_step(elevator))) >>]
       ELSE [elevators |-> [elevators EXCEPT
                               ![elevator_id] = [elevator EXCEPT !.direction = None]],
             calls |-> calls,
             cmds |-> << >>]

at_floor(elevators, calls, elevator_id, floor) ==
    LET arrived == [elevators[elevator_id] EXCEPT
                       !.should_visit = @ \ {floor},
                       !.position = floor]
        elevator == IF next_step(arrived) = None /\ ~is_idle(arrived)
                    THEN swap_direction(arrived)
                    ELSE arrived
    IN IF ~is_idle(elevator)
       THEN [elevators |-> [elevators EXCEPT ![elevator_id] = elevator],
             calls |-> calls,
             cmds |-> << GoToFloor(elevator_id, Unwrap(next_step(elevator))) >>]
       ELSE [elevators |-> [elevators EXCEPT
                               ![elevator_id] = [elevator EXCEPT !.direction = None]],
             calls |-> calls,
             cmds |-> << >>]

other_event(elevators, calls) ==
    [elevators |-> elevators, calls |-> calls, cmds |-> << >>]

\* the match of the loop body, controller.rs:188-219
handle_event(elevators, calls, e) ==
    CASE e[1] = "CallButtonPressed" -> call_button_pressed(elevators, calls, e[2], e[3])
      [] e[1] = "FloorButtonPressed" -> floor_button_pressed(elevators, calls, e[2], e[3])
      [] e[1] = "AtFloor" -> at_floor(elevators, calls, e[2], e[3])
      [] OTHER -> other_event(elevators, calls)

\* one iteration of the controller loop for event e: the arm, then
\* process_waiting_list; one outcome per iteration order of the HashSet
loop_body(elevators, calls, e) ==
    LET handled == handle_event(elevators, calls, e)
    IN {LET pass == process_waiting_list(handled.elevators, handled.calls, order)
        IN [elevators |-> pass.elevators,
            calls |-> pass.calls,
            cmds |-> handled.cmds \o pass.cmds,
            matches |-> pass.matches]
        : order \in IterationOrders(handled.calls)}

\* ------------------------------------------------------------------ state
VARIABLES
    should_visit_by_elevator,     \* [ElevatorIds -> ElevatorButtonsInfo]
    call_button_pressed_by_floor, \* set of <<floor, direction>>
    evt,                          \* the event processed by the last iteration
    sent,                         \* commands sent during the last iteration
    matches,                      \* matches made by its process_waiting_list
    destination,                  \* per elevator: target of the last GoToFloor
                                  \* not yet reached (state of the building)
    buttons,                      \* button events left in the fair specification
    direction_before,             \* direction the elevator of an AtFloor event
                                  \* had when the event was received
    status,                       \* "running", "stopped" (the loop was left)
                                  \* or "panicked" (an unwrap or index failed)
    fault,                        \* what ended the loop, "none" while running
    events_open,                  \* the broadcast sender of events is alive
    cmd_open                      \* the receiver of building_cmd_tx is alive

vars == << should_visit_by_elevator, call_button_pressed_by_floor, evt, sent,
           matches, destination, buttons, direction_before, status, fault,
           events_open, cmd_open >>

channels == << status, fault, events_open, cmd_open >>

\* the building's view after receiving the commands cmds in order and, for an
\* AtFloor event, after the elevator reached the floor
RECURSIVE apply_cmds(_, _, _)
apply_cmds(dest, cmds, i) ==
    IF i > Len(cmds) THEN dest
    ELSE apply_cmds([dest EXCEPT ![cmds[i][1]] = Some(cmds[i][2])], cmds, i + 1)

arrive(dest, e) ==
    IF e[1] = "AtFloor" /\ dest[e[2]] = Some(e[3])
    THEN [dest EXCEPT ![e[2]] = None]
    ELSE dest

Init ==
    /\ should_visit_by_elevator = [id \in ElevatorIds |-> DefaultElevator]
    /\ call_button_pressed_by_floor = {}
    /\ evt = << "Start" >>
    /\ sent = << >>
    /\ matches = << >>
    /\ destination = [id \in ElevatorIds |-> None]
    /\ buttons = MaxButtons
    /\ direction_before = None
    /\ status = "running"
    /\ fault = "none"
    /\ events_open = TRUE
    /\ cmd_open = TRUE

\* the iteration of the loop for event e ends with the outcome out
Iteration(e, out) ==
    /\ should_visit_by_elevator' = out.elevators
    /\ call_button_pressed_by_floor' = out.calls
    /\ evt' = e
    /\ sent' = out.cmds
    /\ matches' = out.matches
    /\ destination' = apply_cmds(arrive(destination, e), out.cmds, 1)
    /\ direction_before' = IF e[1] = "AtFloor"
                           THEN should_visit_by_elevator[e[2]].direction
                           ELSE None

\* the controller receives e and runs one iteration of its loop; both
\* channels stay open
Receive(e) ==
    /\ \E out \in loop_body(should_visit_by_elevator,
                             call_button_pressed_by_floor, e) : Iteration(e, out)
    /\ UNCHANGED channels

CallButtonPressed(at, direction) ==
    /\ Cardinality(call_button_pressed_by_floor \cup {<< at, direction >>}) <= MaxPending
    /\ Receive(<< "CallButtonPressed", at, direction >>)
    /\ UNCHANGED buttons

FloorButtonPressed(elevator_id, dest) ==
    /\ Receive(<< "FloorButtonPressed", elevator_id, dest >>)
    /\ UNCHANGED buttons

AtFloor(elevator_id, floor) ==
    /\ Receive(<< "AtFloor", elevator_id, floor >>)
    /\ UNCHANGED buttons

OtherEvent ==
    /\ Receive(<< "PassengerDelivered" >>)
    /\ UNCHANGED buttons

Next ==
    \/ \E at \in FloorIds, direction \in Direction : CallButtonPressed(at, direction)
    \/ \E id \in ElevatorIds, dest \in FloorIds : FloorButtonPressed(id, dest)
    \/ \E id \in ElevatorIds, floor \in FloorIds : AtFloor(id, floor)
    \/ OtherEvent

Spec == Init /\ [][Next]_vars

\* ------------------------------------------------- fair specification
\* The passengers press at most MaxButtons buttons, and the building reports
\* AtFloor for the floor an elevator was last commanded to.
PassengerCalls(at, direction) ==
    /\ buttons > 0
    /\ Cardinality(call_button_pressed_by_floor \cup {<< at, direction >>}) <= MaxPending
    /\ Receive(<< "CallButtonPressed", at, direction >>)
    /\ buttons' = buttons - 1

PassengerSelects(elevator_id, dest) ==
    /\ buttons > 0
    /\ Receive(<< "FloorButtonPressed", elevator_id, dest >>)
    /\ buttons' = buttons - 1

BuildingArrives(elevator_id) ==
    /\ destination[elevator_id] # None
    /\ Receive(<< "AtFloor", elevator_id, Unwrap(destination[elevator_id]) >>)
    /\ UNCHANGED buttons

FairNext ==
    \/ \E at \in FloorIds, direction \in Direction : PassengerCalls(at, direction)
    \/ \E id \in ElevatorIds, dest \in FloorIds : PassengerSelects(id, dest)
    \/ \E id \in ElevatorIds : BuildingArrives(id)

FairSpec ==
    /\ Init
    /\ [][FairNext]_vars
    /\ \A id \in ElevatorIds : WF_vars(BuildingArrives(id))

\* ------------------------------------------ faulty collaborators
\* The event stream may carry an elevator id or an AtFloor floor that does
\* not exist, the controller may lag behind the broadcast stream, and the
\* building may drop either channel.  Buttons and corrupted events share the
\* budget of MaxButtons events.

\* Vec::get_mut: None for an index outside the vector
get_mut(elevators, elevator_id) ==
    IF elevator_id \in DOMAIN elevators THEN Some(elevators[elevator_id]) ELSE None

\* print_state without the indexing by position
print_state_unchecked(floors_count, elevators) == TRUE

\* print_state returns: print_matrix has floors_count rows and is indexed by
\* the position of every elevator, which panics out of bounds
print_state(floors_count, elevators) ==
    \A id \in DOMAIN elevators : elevators[id].position < floors_count

\* events naming the elevator id NumElevators or the AtFloor floor NumFloors,
\* neither of which exists
InvalidEvents ==
    {<< "FloorButtonPressed", NumElevators, f >> : f \in FloorIds}
    \cup {<< "AtFloor", NumElevators, f >> : f \in FloorIds}
    \cup {<< "AtFloor", id, NumFloors >> : id \in 0 .. NumElevators}

\* get_mut(elevator_id).unwrap() panics at the start of the arm of e
PanicAtGetMut(e) ==
    /\ evt' = e
    /\ sent' = << >>
    /\ matches' = << >>
    /\ direction_before' = None
    /\ status' = "panicked"
    /\ fault' = "get_mut"
    /\ UNCHANGED << should_visit_by_elevator, call_button_pressed_by_floor,
                    destination, events_open, cmd_open >>

\* the index of the first match of ms that sends a command
FirstCommand(ms) ==
    SetMin({i \in 1 .. Len(ms) : ms[i].cmd # None})

\* the first send of the iteration that ends with out finds the command
\* channel closed and its unwrap panics: in the arm if the arm sends, else in
\* process_waiting_list after the first insertion, before any removal
PanicAtSend(e, out) ==
    LET handled == handle_event(should_visit_by_elevator,
                                call_button_pressed_by_floor, e)
    IN /\ IF handled.cmds # << >>
          THEN /\ should_visit_by_elevator' = handled.elevators
               /\ matches' = << >>
          ELSE LET k == FirstCommand(out.matches)
               IN /\ should_visit_by_elevator' =
                         [handled.elevators EXCEPT
                             ![out.matches[k].elevator_id] = out.matches[k].after]
                  /\ matches' = SubSeq(out.matches, 1, k)
       /\ call_button_pressed_by_floor' = handled.calls
       /\ evt' = e
       /\ sent' = << >>
       /\ destination' = arrive(destination, e)
       /\ direction_before' = IF e[1] = "AtFloor"
                              THEN should_visit_by_elevator[e[2]].direction
                              ELSE None
       /\ status' = "panicked"
       /\ fault' = "send"
       /\ UNCHANGED << events_open, cmd_open >>

\* the controller receives e while either channel may be closed and e may be
\* invalid
Deliver(e) ==
    /\ status = "running"
    /\ events_open
    /\ IF e[1] \in {"FloorButtonPressed", "AtFloor"}
          /\ get_mut(should_visit_by_elevator, e[2]) = None
       THEN PanicAtGetMut(e)
       ELSE \E out \in loop_body(should_visit_by_elevator,
                                 call_button_pressed_by_floor, e) :
               IF out.cmds # << >> /\ ~cmd_open
               THEN PanicAtSend(e, out)
               ELSE /\ Iteration(e, out)
                    /\ IF print_state(NumFloors, out.elevators)
                       THEN UNCHANGED channels
                       ELSE /\ status' = "panicked"
                            /\ fault' = "print_state"
                            /\ UNCHANGED << events_open, cmd_open >>

PressCall(at, direction) ==
    /\ buttons > 0
    /\ Cardinality(call_button_pressed_by_floor \cup {<< at, direction >>}) <= MaxPending
    /\ Deliver(<< "CallButtonPressed", at, direction >>)
    /\ buttons' = buttons - 1

PressFloor(elevator_id, dest) ==
    /\ buttons > 0
    /\ Deliver(<< "FloorButtonPressed", elevator_id, dest >>)
    /\ buttons' = buttons - 1

Arrives(elevator_id) ==
    /\ destination[elevator_id] # None
    /\ Deliver(<< "AtFloor", elevator_id, Unwrap(destination[elevator_id]) >>)
    /\ UNCHANGED buttons

CorruptedEvent(e) ==
    /\ buttons > 0
    /\ Deliver(e)
    /\ buttons' = buttons - 1

\* recv returns Err(Lagged): the controller fell behind the broadcast stream
\* by more than its capacity while suspended in a send; `while let Ok` leaves
\* the loop
RecvLagged ==
    /\ status = "running"
    /\ events_open
    /\ evt # << "Start" >>
    /\ status' = "stopped"
    /\ fault' = "lagged"
    /\ UNCHANGED << should_visit_by_elevator, call_button_pressed_by_floor, evt,
                    sent, matches, destination, buttons, direction_before,
                    events_open, cmd_open >>

\* recv returns Err(Closed): every sender is gone and the stream is drained
RecvClosed ==
    /\ status = "running"
    /\ ~events_open
    /\ status' = "stopped"
    /\ fault' = "closed"
    /\ UNCHANGED << should_visit_by_elevator, call_button_pressed_by_floor, evt,
                    sent, matches, destination, buttons, direction_before,
                    events_open, cmd_open >>

\* the building shuts down and drops the broadcast sender
BuildingCloses ==
    /\ events_open
    /\ events_open' = FALSE
    /\ UNCHANGED << should_visit_by_elevator, call_button_pressed_by_floor, evt,
                    sent, matches, destination, buttons, direction_before,
                    status, fault, cmd_open >>

\* the building drops the receiver of the command channel
BuildingDropsCommands ==
    /\ cmd_open
    /\ cmd_open' = FALSE
    /\ UNCHANGED << should_visit_by_elevator, call_button_pressed_by_floor, evt,
                    sent, matches, destination, buttons, direction_before,
                    status, fault, events_open >>

FaultNext ==
    \/ \E at \in FloorIds, direction \in Direction : PressCall(at, direction)
    \/ \E id \in ElevatorIds, dest \in FloorIds : PressFloor(id, dest)
    \/ \E id \in ElevatorIds : Arrives(id)
    \/ \E e \in InvalidEvents : CorruptedEvent(e)
    \/ RecvLagged
    \/ RecvClosed
    \/ BuildingCloses
    \/ BuildingDropsCommands

FaultSpec == Init /\ [][FaultNext]_vars

\* ------------------------------------------------------------- shorthands
Elevator(id) == should_visit_by_elevator[id]
Scanning(e, direction) == ~is_idle(e) /\ e.direction = Some(direction)
Calls == FloorIds \X Direction

\* the events the controller can receive next
EnabledEvents ==
    {<< "CallButtonPressed", c[1], c[2] >> : c \in
        {c \in Calls : Cardinality(call_button_pressed_by_floor \cup {c}) <= MaxPending}}
    \cup {<< "FloorButtonPressed", id, f >> : id \in ElevatorIds, f \in FloorIds}
    \cup {<< "AtFloor", id, f >> : id \in ElevatorIds, f \in FloorIds}
    \cup {<< "PassengerDelivered" >>}

\* the targets of the commands of cmds sent to elevator id
TargetsFor(cmds, id) == {cmds[i][2] : i \in {j \in 1 .. Len(cmds) : cmds[j][1] = id}}

\* ------------------------------------------------------------------ C1
\* C1: between processed events, every elevator has direction None if and
\* only if its stop set is empty.
DirectionNoneIffIdle ==
    \A id \in ElevatorIds :
        (Elevator(id).direction = None) <=> is_idle(Elevator(id))

\* an AtFloor emptied an elevator's stops while another elevator is scanning
DirectionNoneIffIdleWitness ==
    /\ evt[1] = "AtFloor"
    /\ is_idle(Elevator(evt[2]))
    /\ \E id \in ElevatorIds : ~is_idle(Elevator(id)) /\ Elevator(id).direction # None

ReconciliationIdempotent ==
    [][evt'[1] = "PassengerDelivered" =>
          /\ should_visit_by_elevator' = should_visit_by_elevator
          /\ call_button_pressed_by_floor' = call_button_pressed_by_floor
          /\ sent' = << >>]_vars

\* an ignored event was processed while hall calls were waiting
ReconciliationIdempotentWitness ==
    /\ evt[1] = "PassengerDelivered"
    /\ Cardinality(call_button_pressed_by_floor) = 2
    /\ \A id \in ElevatorIds : ~is_idle(Elevator(id))

\* ------------------------------------------------------------------ C4
\* C4: find_best_elevator_match returns a candidate of minimal distance, the
\* lowest id among those of minimal distance, and None exactly when there
\* is no candidate.
Candidates(floor, direction) ==
    {id \in ElevatorIds : is_candidate(Elevator(id), floor, direction)}

SelectCarNearestLowestId ==
    \A c \in Calls :
        LET found == find_best_elevator_match(c[1], c[2], should_visit_by_elevator)
            cands == Candidates(c[1], c[2])
        IN /\ (found = None) <=> (cands = {})
           /\ found # None =>
                 /\ Unwrap(found) \in cands
                 /\ \A id \in cands :
                       /\ distance_to(Elevator(Unwrap(found)), c[1])
                              <= distance_to(Elevator(id), c[1])
                       /\ distance_to(Elevator(Unwrap(found)), c[1])
                              = distance_to(Elevator(id), c[1])
                          => Unwrap(found) <= id

\* two candidates standing at different floors tie for a call and the
\* lower id is returned, while another call has a single candidate
SelectCarNearestLowestIdWitness ==
    /\ \E c \in Calls :
          /\ Candidates(c[1], c[2]) = {0, 1}
          /\ Elevator(0).position # Elevator(1).position
          /\ distance_to(Elevator(0), c[1]) = distance_to(Elevator(1), c[1])
          /\ find_best_elevator_match(c[1], c[2], should_visit_by_elevator) = Some(0)
    /\ \E c \in Calls : Candidates(c[1], c[2]) = {1}

\* ------------------------------------------------------------------ C5
\* C5: the result of processing an event (every elevator's stops and
\* direction, the remaining pending calls, the commands sent) does not
\* depend on the order in which the pending set is iterated.
CmdSet(cmds) == {cmds[i] : i \in 1 .. Len(cmds)}

DispatchOrderIndependent ==
    \A e \in EnabledEvents :
        \A o1, o2 \in loop_body(should_visit_by_elevator,
                                call_button_pressed_by_floor, e) :
            /\ o1.elevators = o2.elevators
            /\ o1.calls = o2.calls
            /\ CmdSet(o1.cmds) = CmdSet(o2.cmds)

\* ------------------------------------------------------------------ C6
\* C6: an elevator scanning Up is a candidate for the hall call (floor, Up)
\* for every floor with position <= floor <= max(stops), both ends included.
UpCandidateRangeInclusive ==
    \A id \in ElevatorIds :
        Scanning(Elevator(id), "Up") =>
            \A floor \in FloorIds :
                (Elevator(id).position <= floor
                 /\ floor <= SetMax(Elevator(id).should_visit))
                    => is_candidate(Elevator(id), floor, "Up")

\* ------------------------------------------------------------------ C7
\* C7: an elevator scanning Down is a candidate for the hall call
\* (floor, Down) for every floor with min(stops) <= floor <= position.
DownCandidateRange ==
    \A id \in ElevatorIds :
        Scanning(Elevator(id), "Down") =>
            \A floor \in FloorIds :
                (SetMin(Elevator(id).should_visit) <= floor
                 /\ floor <= Elevator(id).position)
                    => is_candidate(Elevator(id), floor, "Down")

\* ------------------------------------------------------------------ C8
\* the elevator scans in the direction before and after the step
KeepsScanning(id, direction) ==
    /\ Scanning(Elevator(id), direction)
    /\ next_step(Elevator(id)) # None
    /\ Scanning(should_visit_by_elevator'[id], direction)

\* every target sent to the elevator in the step lies strictly beyond the
\* value next_step had before the step
TargetsAdvance(id) ==
    \A t \in TargetsFor(sent', id) :
        /\ KeepsScanning(id, "Up") => t > Unwrap(next_step(Elevator(id)))
        /\ KeepsScanning(id, "Down") => t < Unwrap(next_step(Elevator(id)))

StopBeyondNext(e) ==
    /\ next_step(e) # None
    /\ \E s \in e.should_visit :
          IF e.direction = Some("Up") THEN s > Unwrap(next_step(e))
          ELSE s < Unwrap(next_step(e))

CurrentFloorMatchDropped ==
    \A i \in 1 .. Len(matches) :
        LET m == matches[i]
        IN ~is_idle(m.before) =>
              /\ m.before.position = m.call[1] =>
                    /\ m.after = m.before
                    /\ m.cmd = None
                    /\ m.call \notin call_button_pressed_by_floor
              /\ m.before.position \notin
                    (m.after.should_visit \ m.before.should_visit)

\* a call at the floor of a scanning elevator was matched to it
CurrentFloorMatchDroppedWitness ==
    \E i \in 1 .. Len(matches) :
        /\ ~is_idle(matches[i].before)
        /\ matches[i].before.position = matches[i].call[1]
        /\ evt = << "CallButtonPressed", matches[i].call[1], matches[i].call[2] >>

\* ----------------------------------------------------------------- C10
\* C10: a hall call (floor, dir) matched while the selected elevator is idle
\* is removed from the pending set in that pass, the elevator's stops become
\* {floor} and the command sent for it is GoToFloor(elevator, floor).
IdleMatchAssigned ==
    \A i \in 1 .. Len(matches) :
        LET m == matches[i]
        IN is_idle(m.before) =>
              /\ m.after.should_visit = {m.call[1]}
              /\ m.cmd = Some(GoToFloor(m.elevator_id, m.call[1]))
              /\ m.call \notin call_button_pressed_by_floor

\* the first event is CallButtonPressed(2, Up): the idle elevator 0 at floor
\* 0 is sent to floor 2 and nothing stays pending
IdleMatchAssignedWitness ==
    /\ evt = << "CallButtonPressed", 2, "Up" >>
    /\ Len(matches) = 1
    /\ is_idle(matches[1].before)
    /\ matches[1].before.position = 0
    /\ sent = << GoToFloor(0, 2) >>
    /\ call_button_pressed_by_floor = {}
    /\ Elevator(0).should_visit = {2}

\* ----------------------------------------------------------------- C11
\* C11: when AtFloor(elevator, floor) removes the elevator's last stop and no
\* hall call is pending, the elevator becomes idle with direction None, its
\* position is floor and no command is sent while the event is processed.
LastStopArrivalIdles ==
    [][\A id \in ElevatorIds, floor \in FloorIds :
          (/\ evt' = << "AtFloor", id, floor >>
           /\ Elevator(id).should_visit = {floor}
           /\ call_button_pressed_by_floor = {})
              => /\ is_idle(should_visit_by_elevator'[id])
                 /\ should_visit_by_elevator'[id].direction = None
                 /\ should_visit_by_elevator'[id].position = floor
                 /\ sent' = << >>]_vars

\* a scanning elevator reported AtFloor above the ground floor, is idle now,
\* and the pass had nothing to match
LastStopArrivalIdlesWitness ==
    /\ evt[1] = "AtFloor"
    /\ evt[3] > 0
    /\ direction_before # None
    /\ is_idle(Elevator(evt[2]))
    /\ Elevator(evt[2]).position = evt[3]
    /\ matches = << >>
    /\ call_button_pressed_by_floor = {}
    /\ sent = << >>

\* ----------------------------------------------------------------- C12
\* the number of commands the pass of the last iteration sent
PassCommands == Cardinality({i \in 1 .. Len(matches) : matches[i].cmd # None})

\* C12: FloorButtonPressed(elevator, destination) is always accepted: after
\* the arm, destination is in the elevator's stops, the elevator has a
\* direction, and the arm has sent exactly one command,
\* GoToFloor(elevator, next_step), whatever the elevator's state was.
FloorButtonAccepted ==
    [][\A id \in ElevatorIds, dest \in FloorIds :
          evt' = << "FloorButtonPressed", id, dest >> =>
              LET handled == floor_button_pressed(should_visit_by_elevator,
                                 call_button_pressed_by_floor, id, dest).elevators[id]
              IN /\ dest \in handled.should_visit
                 /\ handled.direction # None
                 /\ next_step(handled) # None
                 /\ Len(sent') = 1 + PassCommands'
                 /\ sent'[1] = GoToFloor(id, Unwrap(next_step(handled)))
                 /\ dest \in should_visit_by_elevator'[id].should_visit
                 /\ should_visit_by_elevator'[id].direction # None]_vars

\* a destination below an elevator that scans Up towards a stop above it:
\* accepted, and the command sent still targets the stop above
FloorButtonAcceptedWitness ==
    /\ evt[1] = "FloorButtonPressed"
    /\ Scanning(Elevator(evt[2]), "Up")
    /\ evt[3] < Elevator(evt[2]).position
    /\ evt[3] \in Elevator(evt[2]).should_visit
    /\ sent = << GoToFloor(evt[2], Elevator(evt[2]).position + 1) >>

\* ----------------------------------------------------------------- C16
\* C16: an elevator's direction flips from Up to Down (Down to Up) only when
\* its stops are non-empty and none of them is >= (<=) its position: it never
\* reverses while a stop lies ahead.  A flip happens only in the AtFloor arm;
\* an elevator that the event left idle and the pass then assigned again
\* takes a fresh direction, which is no reversal.
ReversalOnlyAtSweepEnd ==
    [][\A id \in ElevatorIds :
          LET old == Elevator(id)
              new == should_visit_by_elevator'[id]
          IN (old.direction # None /\ new.direction # None
              /\ new.direction # old.direction)
                 => /\ evt'[1] = "AtFloor"
                    /\ evt'[2] = id
                    /\ LET rest == old.should_visit \ {evt'[3]}
                       IN \/ /\ rest = {}
                             /\ \E i \in 1 .. Len(matches') :
                                   /\ matches'[i].elevator_id = id
                                   /\ is_idle(matches'[i].before)
                          \/ /\ rest # {}
                             /\ \A s \in rest :
                                   IF old.direction = Some("Up")
                                   THEN s < evt'[3]
                                   ELSE s > evt'[3]]_vars

\* an elevator scanning Up reported AtFloor with stops left only below it and
\* scans Down now, without having been idle in between
ReversalOnlyAtSweepEndWitness ==
    /\ evt[1] = "AtFloor"
    /\ direction_before = Some("Up")
    /\ Scanning(Elevator(evt[2]), "Down")
    /\ \A i \in 1 .. Len(matches) : matches[i].elevator_id # evt[2]
    /\ \A s \in Elevator(evt[2]).should_visit : s < Elevator(evt[2]).position

\* ----------------------------------------------------------------- C17
\* C17: between processed events every non-idle elevator has a direction, a
\* current_trip and a next_step, and its next_step is one of its stops, so
\* no unwrap of the controller can fail.
NonIdleHasNextStep ==
    \A id \in ElevatorIds :
        ~is_idle(Elevator(id)) =>
            /\ Elevator(id).direction # None
            /\ current_trip(Elevator(id)) # None
            /\ next_step(Elevator(id)) # None
            /\ Unwrap(next_step(Elevator(id))) \in Elevator(id).should_visit

\* an elevator scanning Up reported AtFloor beyond its stops, which reversed
\* it, and it is sent to the stop now below it
NonIdleHasNextStepWitness ==
    /\ evt[1] = "AtFloor"
    /\ direction_before = Some("Up")
    /\ Elevator(evt[2]).direction = Some("Down")
    /\ evt[3] \notin Elevator(evt[2]).should_visit
    /\ Elevator(evt[2]).should_visit # {}
    /\ sent = << GoToFloor(evt[2], SetMax(Elevator(evt[2]).should_visit)) >>

\* ----------------------------------------------------------------- C18
\* C18: after every processed event, if a hall call is pending then no
\* elevator is idle.
NoIdleWhilePending ==
    call_button_pressed_by_floor # {} =>
        \A id \in ElevatorIds : ~is_idle(Elevator(id))

\* an arrival left an elevator idle, the pass gave it one of two pending
\* calls, and the other call stays pending
NoIdleWhilePendingWitness ==
    /\ evt[1] = "AtFloor"
    /\ call_button_pressed_by_floor # {}
    /\ \E i \in 1 .. Len(matches) :
          /\ matches[i].elevator_id = evt[2]
          /\ is_idle(matches[i].before)
    /\ \A id \in ElevatorIds : ~is_idle(Elevator(id))

\* ----------------------------------------------------------------- C19
\* C19: after every processed event, the most recent GoToFloor sent to a
\* non-idle elevator targets the elevator's next_step.
CommandMatchesNextStep ==
    \A id \in ElevatorIds :
        ~is_idle(Elevator(id)) => destination[id] = next_step(Elevator(id))

\* the pass inserted a nearer stop into a scanning elevator, which changed
\* its next_step, and sent the elevator there
CommandMatchesNextStepWitness ==
    \E i \in 1 .. Len(matches) :
        /\ ~is_idle(matches[i].before)
        /\ next_step(matches[i].after) # next_step(matches[i].before)
        /\ matches[i].cmd = Some(GoToFloor(matches[i].elevator_id, matches[i].call[1]))
        /\ Elevator(matches[i].elevator_id) = matches[i].after

\* ----------------------------------------------------------------- C13
\* C13: the controller loop terminates exactly when its event source is
\* closed; it never stops consuming events while the source is open, also
\* when it falls behind the broadcast stream.  Stated as: a stopped loop
\* means a closed source.
StopsOnlyWhenSourceClosed ==
    status = "stopped" => ~events_open

\* ----------------------------------------------------------------- C14
\* C14: when a send of GoToFloor fails because the command channel is
\* closed, the controller stops cleanly: it reaches the terminated state,
\* not the panicked one.
SendFailureStopsCleanly ==
    fault = "send" => status = "stopped"

\* ----------------------------------------------------------------- C15
\* C15: an event naming a nonexistent elevator, or an AtFloor event with a
\* floor outside 0 .. NumFloors - 1, puts the controller into the panicked
\* state, and a panicked controller processes nothing further.
InvalidEventIsFatal ==
    [][/\ (status = "running" /\ evt' \in InvalidEvents) => status' = "panicked"
       /\ status = "panicked" =>
              UNCHANGED << should_visit_by_elevator, call_button_pressed_by_floor,
                           evt, sent, matches, status, fault >>]_vars

\* AtFloor for the floor NumFloors reached a scanning elevator: the arm moved
\* the elevator there and sent it back to a stop, then print_state panicked
InvalidEventIsFatalWitness ==
    /\ evt[1] = "AtFloor"
    /\ evt[2] \in ElevatorIds
    /\ evt[3] = NumFloors
    /\ Elevator(evt[2]).position = NumFloors
    /\ sent # << >>
    /\ status = "panicked"
    /\ fault = "print_state"

====
